---- MODULE Spec2Model ----
(***************************************************************************)
(* Model of src/questrade-client.ts: the QuestradeClient session state,    *)
(* its refresh-then-fetch calls and the asynchronous steps they are made   *)
(* of.  JavaScript runs one synchronous portion at a time; every `await`   *)
(* is a suspension point, so each action below is one synchronous portion  *)
(* of one logical task, and actions of different tasks interleave.         *)
(***************************************************************************)
EXTENDS Integers, Sequences, FiniteSets, TLC

\* ---------------------------------------------------------------- bounds
MaxCalls == 2          \* calls of the public data methods started in a run
MaxTime == 1           \* the clock runs from 0 to MaxTime seconds

\* ----------------------------------------------------- program constants
CODE_BAD_REQUEST == 400
SAFETY_MARGIN == 20

AUTH_URL == "https://login.questrade.com/oauth2/token"
DEFAULT_API_SERVER == <<"https://api01.iq.questrade.com">>
\* Strings the code takes apart or puts together are sequences of pieces;
\* the empty sequence is the empty string.
MSG_INVALID_REFRESH_TOKEN == <<"Invalid refresh token">>
MSG_FAILED_TO_REFRESH == <<"Failed to refresh tokens">>

Undefined == <<"undefined">>           \* JavaScript's undefined
None == [kind |-> "none"]              \* no value yet (model bookkeeping)

\* ------------------------------------------------------------ environment
Tasks == {"t1", "t2"}                  \* logical tasks sharing one client
Accounts == {"111"}                    \* account numbers asked for
SeedToken == <<"R", 0>>                \* the constructor's refreshToken argument
\* what the authorization server grants with a token pair: a base URL (a
\* sequence of pieces, so that a trailing "/" is a last element) and a
\* lifetime in seconds, one inside and one beyond the 20 s margin
Grants == { [api_server |-> <<"https://srv1", "/">>, expires_in |-> 21],
            [api_server |-> <<"https://srv2">>, expires_in |-> 20] }
AuthFailStatuses == {503}              \* failures other than a rejected token
DataStatuses == {200, 500}             \* data endpoint replies

\* the body text a server sends with a status
StatusText(status) ==
    CASE status = 400 -> "Bad Request"
      [] status = 401 -> "Unauthorized"
      [] status = 404 -> "Account not found"
      [] status = 500 -> "server error"
      [] status = 503 -> "Service Unavailable"
      [] OTHER -> "OK"

VARIABLES
    refreshToken,      \* this.refreshToken
    accessToken,       \* this.accessToken (Undefined when absent)
    expirationTime,    \* this.expirationTime
    apiServer,         \* this.apiServer
    now,               \* Math.floor(Date.now() / 1000)
    pc,                \* pc[t]: where task t's current call is suspended
    call,              \* call[t]: the call task t made last: its endpoint, its
                       \* number, whether no other call was in flight when it was
                       \* made, what _tokensNeedUpdating() returned to it, and the
                       \* time and the token fields it was made at
    authSent,          \* authSent[t]: refresh requests sent by t's current call
    dataSent,          \* dataSent[t]: data requests sent by t's current call
    net,               \* net[t]: t's refresh request in flight, or the reply to it
    authRes,           \* authRes[t]: `res` of _updateTokens in t's call
    dataRes,           \* dataRes[t]: `res` of _doApiRequest in t's call
    outcome,           \* outcome[t]: what t's call returned or threw
    calls,             \* number of calls started
    issued,            \* token pairs issued by the authorization server
    serverToken,       \* the refresh token the authorization server accepts
    emitted,           \* 'refresh' events emitted: what each listener read
    okDelivered,       \* success replies of the authorization endpoint delivered
    read               \* what the accessors returned, if the last step called
                       \* them (any other step sets it to None)

session == <<refreshToken, accessToken, expirationTime, apiServer>>
taskvars == <<pc, call, authSent, dataSent, net, authRes, dataRes, outcome, calls>>
envvars == <<now, issued, serverToken>>
histvars == <<emitted, okDelivered>>
vars == <<session, taskvars, envvars, histvars, read>>

\* ------------------------------------------------------------ pure helpers

\* Response.ok of node-fetch: status in the range 200-299
ResOk(status) == status >= 200 /\ status <= 299

\* JavaScript truthiness of a string-or-undefined value
Truthy(v) == v # Undefined /\ v # <<>>

\* getCurrentTimeSeconds()
getCurrentTimeSeconds == now

\* this.apiServer.replace(/\/$/, ''): drop one trailing "/"
StripTrailingSlash(url) ==
    IF Len(url) > 0 /\ url[Len(url)] = "/" THEN SubSeq(url, 1, Len(url) - 1) ELSE url

\* `${this.apiServer.replace(/\/$/, '')}${endpoint}`
ApiUrl(server, endpoint) == StripTrailingSlash(server) \o endpoint

AccountsEndpoint == <<"/v1/accounts">>
BalancesEndpoint(acct) == <<"/v1/accounts/", acct, "/balances">>

\* new QuestradeApiError(message, code, body)
QuestradeApiError(message, code, body) ==
    [kind |-> "error", message |-> message, code |-> code, body |-> body]

\* a staleness check that forgets the boundary second
TokensNeedUpdatingAt_strict(tok, exp, t) ==
    IF ~Truthy(tok) THEN TRUE ELSE t > exp - SAFETY_MARGIN

\* a staleness check without the safety margin
TokensNeedUpdatingAt_noMargin(tok, exp, t) ==
    IF ~Truthy(tok) THEN TRUE ELSE t >= exp

\* a staleness check that only looks at the expiry of a token it holds
TokensNeedUpdatingAt_heldOnly(tok, exp, t) ==
    Truthy(tok) /\ t >= exp - SAFETY_MARGIN

\* _tokensNeedUpdating() on the given field values at the given time
TokensNeedUpdatingAt(tok, exp, t) ==
    IF ~Truthy(tok) THEN TRUE ELSE t >= exp - SAFETY_MARGIN

_tokensNeedUpdating ==
    TokensNeedUpdatingAt(accessToken, expirationTime, getCurrentTimeSeconds)

\* ------------------------------------------------------------------- Init
Init ==
    /\ refreshToken = SeedToken
    /\ accessToken = Undefined
    /\ expirationTime = -1
    /\ apiServer = DEFAULT_API_SERVER
    /\ now = 0
    /\ pc = [t \in Tasks |-> "idle"]
    /\ call = [t \in Tasks |-> None]
    /\ authSent = [t \in Tasks |-> <<>>]
    /\ dataSent = [t \in Tasks |-> <<>>]
    /\ net = [t \in Tasks |-> None]
    /\ authRes = [t \in Tasks |-> None]
    /\ dataRes = [t \in Tasks |-> None]
    /\ outcome = [t \in Tasks |-> None]
    /\ calls = 0
    /\ issued = 0
    /\ serverToken \in {SeedToken, Undefined}   \* the seed may already be invalid
    /\ emitted = <<>>
    /\ okDelivered = 0
    /\ read = None

\* ------------------------------------------------- requests and errors

\* fetch(`${AUTH_URL}?grant_type=refresh_token&refresh_token=${this.refreshToken}`,
\*       {method: 'POST'}): the request as the authorization endpoint gets it
AuthRequest(token) ==
    [kind |-> "request", method |-> "POST", url |-> AUTH_URL,
     grant_type |-> "refresh_token", refresh_token |-> token]

\* a request built on the built-in server instead of the current one
ApiRequest_defaultServer(server, token, endpoint, method) ==
    [method |-> method, url |-> ApiUrl(DEFAULT_API_SERVER, endpoint), bearer |-> token]

\* fetch(url, {method, headers: {Authorization: `Bearer ${this.accessToken}`}})
ApiRequest(server, token, endpoint, method) ==
    [method |-> method, url |-> ApiUrl(server, endpoint), bearer |-> token]

\* a refresh error that never carries the reply's body
RefreshError_noBody(status, text) ==
    IF status = CODE_BAD_REQUEST
        THEN QuestradeApiError(MSG_INVALID_REFRESH_TOKEN, status, "")
        ELSE QuestradeApiError(MSG_FAILED_TO_REFRESH, status, "")

\* a refresh error that takes every client error for a rejected token
RefreshError_anyFailure(status, text) ==
    IF status >= CODE_BAD_REQUEST
        THEN QuestradeApiError(MSG_INVALID_REFRESH_TOKEN, status, "")
        ELSE QuestradeApiError(MSG_FAILED_TO_REFRESH, status, text)

\* the error _updateTokens throws for a response that is not ok; `text` is
\* what res.text() gave (read only when the status is not 400)
RefreshError(status, text) ==
    IF status = CODE_BAD_REQUEST
        THEN QuestradeApiError(MSG_INVALID_REFRESH_TOKEN, status, "")
        ELSE QuestradeApiError(MSG_FAILED_TO_REFRESH, status, text)

\* a data error that leaves the reply's body out
ApiRequestError_noBody(method, url, status, text) ==
    QuestradeApiError(<<"Failed to ", method, " ">> \o url, status, "")

\* the error _doApiRequest throws for a response that is not ok
ApiRequestError(method, url, status, text) ==
    QuestradeApiError(<<"Failed to ", method, " ">> \o url, status, text)

\* an update that stores the lifetime where the expiry time belongs
UpdatedSession_lifetime(body, time) ==
    [accessToken |-> body.access_token,
     refreshToken |-> body.refresh_token,
     apiServer |-> body.api_server,
     expirationTime |-> body.expires_in]

\* a refresh that forgets to store the replacement refresh token
UpdatedSession_keepRefreshToken(body, time) ==
    [accessToken |-> body.access_token,
     refreshToken |-> refreshToken,
     apiServer |-> body.api_server,
     expirationTime |-> time + body.expires_in]

\* the four assignments of _updateTokens, made at time `time` from `body`
UpdatedSession(body, time) ==
    [accessToken |-> body.access_token,
     refreshToken |-> body.refresh_token,
     apiServer |-> body.api_server,
     expirationTime |-> time + body.expires_in]

\* an emit placed before the assignments: the listener reads the old tokens
ListenerReads_early(before, after) ==
    [refreshToken |-> before.refreshToken, accessToken |-> before.accessToken]

\* what a 'refresh' listener reads with getRefreshToken() and getAccessToken()
\* while the event is emitted; the emit follows the four assignments, so it
\* reads the new fields
ListenerReads(before, after) ==
    [refreshToken |-> after.refreshToken, accessToken |-> after.accessToken]

\* ------------------------------------------------------ the client's steps

\* a refresh that sends its request twice
_updateTokens_send_twice(t, sent) ==
    /\ authSent' = [authSent EXCEPT
          ![t] = Append(Append(sent, AuthRequest(refreshToken)), AuthRequest(refreshToken))]
    /\ net' = [net EXCEPT ![t] = AuthRequest(refreshToken)]
    /\ pc' = [pc EXCEPT ![t] = "awaitAuth"]

\* _updateTokens up to its first await: the refresh request leaves.
\* `sent` is what the current call has sent to the authorization endpoint.
_updateTokens_send(t, sent) ==
    /\ authSent' = [authSent EXCEPT ![t] = Append(sent, AuthRequest(refreshToken))]
    /\ net' = [net EXCEPT ![t] = AuthRequest(refreshToken)]
    /\ pc' = [pc EXCEPT ![t] = "awaitAuth"]

\* _doApiRequest up to its await: the data request leaves.
\* `sent` is what the current call has sent to the data endpoints.
_doApiRequest_send(t, endpoint, sent) ==
    /\ dataSent' = [dataSent EXCEPT
          ![t] = Append(sent, ApiRequest(apiServer, accessToken, endpoint, "GET"))]
    /\ pc' = [pc EXCEPT ![t] = "awaitData"]

\* a public data method up to its first suspension: check staleness, then
\* either start the refresh or go straight to the data request
FetchData(t, endpoint) ==
    /\ read' = None
    /\ pc[t] \in {"idle", "done"}
    /\ calls < MaxCalls
    /\ calls' = calls + 1
    /\ call' = [call EXCEPT ![t] =
                  [kind |-> "call", endpoint |-> endpoint, seq |-> calls + 1,
                   alone |-> \A u \in Tasks \ {t} : pc[u] \in {"idle", "done"},
                   stale |-> _tokensNeedUpdating,
                   now |-> now, accessToken |-> accessToken,
                   expirationTime |-> expirationTime]]
    /\ outcome' = [outcome EXCEPT ![t] = None]
    /\ authRes' = [authRes EXCEPT ![t] = None]
    /\ dataRes' = [dataRes EXCEPT ![t] = None]
    /\ IF _tokensNeedUpdating
          THEN /\ _updateTokens_send(t, <<>>)
               /\ dataSent' = [dataSent EXCEPT ![t] = <<>>]
          ELSE /\ _doApiRequest_send(t, endpoint, <<>>)
               /\ authSent' = [authSent EXCEPT ![t] = <<>>]
               /\ UNCHANGED net
    /\ UNCHANGED <<session, envvars, histvars>>

getAccounts(t) == FetchData(t, AccountsEndpoint)

getAccountBalances(t, accountNumber) == FetchData(t, BalancesEndpoint(accountNumber))

\* the authorization endpoint answers task t's refresh request: it accepts
\* only the refresh token it issued last, replaces it on success with a
\* server and lifetime out of `grants`, and may fail for reasons of its own
AuthServerReplyWith(t, grants) ==
    /\ read' = None
    /\ net[t].kind = "request"
    /\ \/ /\ net[t].refresh_token = serverToken
          /\ \E g \in grants :
                net' = [net EXCEPT ![t] =
                    [kind |-> "reply", status |-> 200,
                     text |-> StatusText(200),
                     json |-> [access_token |-> <<"A", issued + 1>>,
                               refresh_token |-> <<"R", issued + 1>>,
                               api_server |-> g.api_server,
                               expires_in |-> g.expires_in]]]
          /\ issued' = issued + 1
          /\ serverToken' = <<"R", issued + 1>>
       \/ /\ net[t].refresh_token # serverToken
          /\ net' = [net EXCEPT ![t] =
                [kind |-> "reply", status |-> 400, text |-> StatusText(400),
                 json |-> None]]
          /\ UNCHANGED <<issued, serverToken>>
       \/ /\ \E st \in AuthFailStatuses :
                net' = [net EXCEPT ![t] =
                    [kind |-> "reply", status |-> st, text |-> StatusText(st),
                     json |-> None]]
          /\ UNCHANGED <<issued, serverToken>>
    /\ UNCHANGED <<session, pc, call, authSent, dataSent, authRes, dataRes,
                   outcome, calls, now, histvars>>

AuthServerReply(t) == AuthServerReplyWith(t, Grants)

\* _updateTokens after `await fetch(...)`: look at res.ok and res.status
_updateTokens_onResponse(t) ==
    /\ read' = None
    /\ pc[t] = "awaitAuth"
    /\ net[t].kind = "reply"
    /\ authRes' = [authRes EXCEPT ![t] = net[t]]
    /\ net' = [net EXCEPT ![t] = None]
    /\ IF ~ResOk(net[t].status)
          THEN /\ IF net[t].status = CODE_BAD_REQUEST
                    THEN /\ outcome' = [outcome EXCEPT
                                ![t] = RefreshError(net[t].status, "")]
                         /\ pc' = [pc EXCEPT ![t] = "done"]
                    ELSE /\ pc' = [pc EXCEPT ![t] = "authText"]
                         /\ UNCHANGED outcome
               /\ UNCHANGED okDelivered
          ELSE /\ pc' = [pc EXCEPT ![t] = "authJson"]
               /\ okDelivered' = okDelivered + 1
               /\ UNCHANGED outcome
    /\ UNCHANGED <<session, call, authSent, dataSent, dataRes, calls, envvars,
                   emitted>>

\* a failure path that drops the access token before it throws
_updateTokens_onText_invalidate(t) ==
    /\ read' = None
    /\ pc[t] = "authText"
    /\ outcome' = [outcome EXCEPT
          ![t] = RefreshError(authRes[t].status, authRes[t].text)]
    /\ pc' = [pc EXCEPT ![t] = "done"]
    /\ accessToken' = Undefined
    /\ expirationTime' = -1
    /\ UNCHANGED <<refreshToken, apiServer, call, authSent, dataSent, net, authRes,
                   dataRes, calls, envvars, histvars>>

\* a failure path that swallows the error: the call goes on to its data request
_updateTokens_onText_swallow(t) ==
    /\ read' = None
    /\ pc[t] = "authText"
    /\ pc' = [pc EXCEPT ![t] = "refreshed"]
    /\ UNCHANGED <<session, call, authSent, dataSent, net, authRes, dataRes,
                   outcome, calls, envvars, histvars>>

\* a refresh that sends its request again after a failure of the service
\* (the record of requests sent keeps the first two)
_updateTokens_onText_retry(t) ==
    /\ read' = None
    /\ pc[t] = "authText"
    /\ authSent' = [authSent EXCEPT
          ![t] = IF Len(@) < 2 THEN Append(@, AuthRequest(refreshToken)) ELSE @]
    /\ net' = [net EXCEPT ![t] = AuthRequest(refreshToken)]
    /\ pc' = [pc EXCEPT ![t] = "awaitAuth"]
    /\ UNCHANGED <<session, call, dataSent, authRes, dataRes, outcome, calls,
                   envvars, histvars>>

\* _updateTokens after `await res.text()`: throw; the rejection ends the call
_updateTokens_onText(t) ==
    /\ read' = None
    /\ pc[t] = "authText"
    /\ outcome' = [outcome EXCEPT ![t] = RefreshError(authRes[t].status, authRes[t].text)]
    /\ pc' = [pc EXCEPT ![t] = "done"]
    /\ UNCHANGED <<session, call, authSent, dataSent, net, authRes, dataRes, calls,
                   envvars, histvars>>

\* a refresh that stores the two tokens and leaves the server and the expiry
\* for later
_updateTokens_onJson_tokensOnly(t) ==
    /\ read' = None
    /\ pc[t] = "authJson"
    /\ LET before == [accessToken |-> accessToken, refreshToken |-> refreshToken,
                      apiServer |-> apiServer, expirationTime |-> expirationTime]
           after == UpdatedSession(authRes[t].json, getCurrentTimeSeconds)
       IN /\ accessToken' = after.accessToken
          /\ refreshToken' = after.refreshToken
          /\ emitted' = Append(emitted, ListenerReads(before, after))
    /\ pc' = [pc EXCEPT ![t] = "refreshed"]
    /\ UNCHANGED <<apiServer, expirationTime, call, authSent, dataSent, net, authRes,
                   dataRes, outcome, calls, envvars, okDelivered>>

\* _updateTokens after `await res.json()`: the four assignments, then the emit
_updateTokens_onJson(t) ==
    /\ read' = None
    /\ pc[t] = "authJson"
    /\ LET before == [accessToken |-> accessToken, refreshToken |-> refreshToken,
                      apiServer |-> apiServer, expirationTime |-> expirationTime]
           after == UpdatedSession(authRes[t].json, getCurrentTimeSeconds)
       IN /\ accessToken' = after.accessToken
          /\ refreshToken' = after.refreshToken
          /\ apiServer' = after.apiServer
          /\ expirationTime' = after.expirationTime
          /\ emitted' = Append(emitted, ListenerReads(before, after))
    /\ pc' = [pc EXCEPT ![t] = "refreshed"]
    /\ UNCHANGED <<call, authSent, dataSent, net, authRes, dataRes, outcome, calls,
                   envvars, okDelivered>>

\* the data method after `await this._updateTokens()`: call _doApiRequest
FetchData_afterRefresh(t) ==
    /\ read' = None
    /\ pc[t] = "refreshed"
    /\ _doApiRequest_send(t, call[t].endpoint, dataSent[t])
    /\ UNCHANGED <<session, call, authSent, net, authRes, dataRes, outcome, calls,
                   envvars, histvars>>

\* _doApiRequest after `await fetch(...)`: the data endpoint's reply arrives
_doApiRequest_onResponse(t) ==
    /\ read' = None
    /\ pc[t] = "awaitData"
    /\ \E st \in DataStatuses :
          /\ dataRes' = [dataRes EXCEPT ![t] =
                [kind |-> "reply", status |-> st, text |-> StatusText(st),
                 json |-> IF ResOk(st)
                            THEN [data |-> dataSent[t][Len(dataSent[t])].url]
                            ELSE None]]
          /\ pc' = [pc EXCEPT ![t] = IF ResOk(st) THEN "dataJson" ELSE "dataText"]
    /\ UNCHANGED <<session, call, authSent, dataSent, net, authRes, outcome, calls,
                   envvars, histvars>>

\* a failed data request that drops the access token to force a refresh
_doApiRequest_onText_invalidate(t) ==
    /\ read' = None
    /\ pc[t] = "dataText"
    /\ LET req == dataSent[t][Len(dataSent[t])]
       IN outcome' = [outcome EXCEPT
              ![t] = ApiRequestError(req.method, req.url, dataRes[t].status, dataRes[t].text)]
    /\ pc' = [pc EXCEPT ![t] = "done"]
    /\ accessToken' = Undefined
    /\ expirationTime' = -1
    /\ UNCHANGED <<refreshToken, apiServer, call, authSent, dataSent, net, authRes,
                   dataRes, calls, envvars, histvars>>

\* _doApiRequest after `await res.text()`: throw; the rejection ends the call
_doApiRequest_onText(t) ==
    /\ read' = None
    /\ pc[t] = "dataText"
    /\ LET req == dataSent[t][Len(dataSent[t])]
       IN outcome' = [outcome EXCEPT
              ![t] = ApiRequestError(req.method, req.url, dataRes[t].status, dataRes[t].text)]
    /\ pc' = [pc EXCEPT ![t] = "done"]
    /\ UNCHANGED <<session, call, authSent, dataSent, net, authRes, dataRes, calls,
                   envvars, histvars>>

\* the promise of res.json() resolves: the call returns the parsed body
_doApiRequest_onJson(t) ==
    /\ read' = None
    /\ pc[t] = "dataJson"
    /\ outcome' = [outcome EXCEPT ![t] = [kind |-> "ok", json |-> dataRes[t].json]]
    /\ pc' = [pc EXCEPT ![t] = "done"]
    /\ UNCHANGED <<session, call, authSent, dataSent, net, authRes, dataRes, calls,
                   envvars, histvars>>

\* a second passes
Tick ==
    /\ read' = None
    /\ now < MaxTime
    /\ now' = now + 1
    /\ UNCHANGED <<session, taskvars, issued, serverToken, histvars>>

\* getRefreshToken(), getAccessToken(), getAccessTokenExpirationTime()
getRefreshToken == refreshToken
getAccessToken == accessToken
getAccessTokenExpirationTime == expirationTime

\* a caller reads the three accessors in one synchronous portion; what they
\* returned is in `read` until the next step
ReadAccessors ==
    /\ read' = [kind |-> "read",
                refreshToken |-> getRefreshToken,
                accessToken |-> getAccessToken,
                expirationTime |-> getAccessTokenExpirationTime]
    /\ UNCHANGED <<session, taskvars, envvars, histvars>>

Next ==
    \/ \E t \in Tasks : getAccounts(t)
    \/ \E t \in Tasks, a \in Accounts : getAccountBalances(t, a)
    \/ \E t \in Tasks : AuthServerReply(t)
    \/ \E t \in Tasks : _updateTokens_onResponse(t)
    \/ \E t \in Tasks : _updateTokens_onText(t)
    \/ \E t \in Tasks : _updateTokens_onJson(t)
    \/ \E t \in Tasks : FetchData_afterRefresh(t)
    \/ \E t \in Tasks : _doApiRequest_onResponse(t)
    \/ \E t \in Tasks : _doApiRequest_onText(t)
    \/ \E t \in Tasks : _doApiRequest_onJson(t)
    \/ Tick
    \/ ReadAccessors

Spec == Init /\ [][Next]_vars

\* ------------------------------------------- the client with fair scheduling

\* the step that task t's call in progress is waiting for: the reply of the
\* endpoint it has sent a request to, or the continuation of the call after
\* an await has settled
CallStep(t) ==
    \/ AuthServerReply(t)
    \/ _updateTokens_onResponse(t)
    \/ _updateTokens_onText(t)
    \/ _updateTokens_onJson(t)
    \/ FetchData_afterRefresh(t)
    \/ _doApiRequest_onResponse(t)
    \/ _doApiRequest_onText(t)
    \/ _doApiRequest_onJson(t)

\* every request sent is answered and the event loop runs every continuation
\* whose await has settled; nothing obliges the host to start calls, read
\* the accessors, or the clock to advance
FairSpec == Spec /\ \A t \in Tasks : WF_vars(CallStep(t))

\* ---------------------------------- the client with lifetimes over the margin

\* refresh replies whose lifetime exceeds the safety margin
LongGrants == {g \in Grants : g.expires_in > SAFETY_MARGIN}

AuthServerReplyLong(t) == AuthServerReplyWith(t, LongGrants)

\* the continuation of a call that awaited _updateTokens runs before the
\* clock's next second: time stands still while a call waits at that point
TickHeld ==
    /\ \A t \in Tasks : pc[t] # "refreshed"
    /\ Tick

NextMargin ==
    \/ \E t \in Tasks : getAccounts(t)
    \/ \E t \in Tasks, a \in Accounts : getAccountBalances(t, a)
    \/ \E t \in Tasks : AuthServerReplyLong(t)
    \/ \E t \in Tasks : _updateTokens_onResponse(t)
    \/ \E t \in Tasks : _updateTokens_onText(t)
    \/ \E t \in Tasks : _updateTokens_onJson(t)
    \/ \E t \in Tasks : FetchData_afterRefresh(t)
    \/ \E t \in Tasks : _doApiRequest_onResponse(t)
    \/ \E t \in Tasks : _doApiRequest_onText(t)
    \/ \E t \in Tasks : _doApiRequest_onJson(t)
    \/ TickHeld
    \/ ReadAccessors

SpecMargin == Init /\ [][NextMargin]_vars

\* ------------------------------------------------------------------ claims

Called(t) == call[t].kind = "call"

\* C1: a call of getAccounts() or getAccountBalances() that finds the token
\* stale sends exactly one refresh request to the authorization endpoint, and
\* a call that finds it fresh sends none (at every moment of the call and
\* after it; in particular for a call made while no other call is in flight).
C1_OneRefreshWhenStale ==
    \A t \in Tasks :
        Called(t) =>
            /\ Len(authSent[t]) = (IF call[t].stale THEN 1 ELSE 0)
            /\ \A i \in 1..Len(authSent[t]) :
                  authSent[t][i].url = AUTH_URL /\ authSent[t][i].method = "POST"

\* two finished calls, each made with no other call in flight: one found the
\* token stale and sent one refresh, the other found it fresh and sent none
C1_Witness ==
    \E t, u \in Tasks :
        /\ Called(t) /\ Called(u) /\ pc[t] = "done" /\ pc[u] = "done"
        /\ call[t].alone /\ call[t].stale /\ Len(authSent[t]) = 1
        /\ call[u].alone /\ ~call[u].stale /\ Len(authSent[u]) = 0
        /\ outcome[t].kind = "ok" /\ outcome[u].kind = "ok"

\* C2: _tokensNeedUpdating() returns true iff no access token is held or the
\* time in seconds is >= expirationTime - 20, and evaluating it changes none
\* of the session fields.
C2_NeedsRefreshIff ==
    /\ [](\A t \in Tasks :
            Called(t) =>
                /\ call[t].stale <=>
                      (call[t].accessToken = Undefined
                         \/ call[t].now >= call[t].expirationTime - 20)
                /\ call[t].accessToken = Undefined => call[t].stale)
    /\ [][\A t \in Tasks : call'[t] # call[t] => UNCHANGED session]_vars

\* a token is held and the check is made in the very second the margin
\* begins (now = expirationTime - 20): it answers true
C2_Witness ==
    \E t \in Tasks :
        /\ Called(t) /\ call[t].accessToken # Undefined
        /\ call[t].now = call[t].expirationTime - 20 /\ call[t].now > 0
        /\ call[t].stale

\* task t's refresh was answered with a status that is not ok
RefreshFailed(t) == authRes[t].kind = "reply" /\ ~ResOk(authRes[t].status)
\* task t's refresh was answered with a success
RefreshGranted(t) == authRes[t].kind = "reply" /\ ResOk(authRes[t].status)

\* C3: when a refresh's success response is processed, accessToken,
\* refreshToken and apiServer become the response's values and expirationTime
\* becomes the time in seconds at that moment plus expires_in.
C3_SuccessSetsSession ==
    [][\A t \in Tasks :
          (pc[t] = "authJson" /\ pc'[t] # "authJson") =>
              /\ accessToken' = authRes[t].json.access_token
              /\ refreshToken' = authRes[t].json.refresh_token
              /\ apiServer' = authRes[t].json.api_server
              /\ expirationTime' = now + authRes[t].json.expires_in]_vars

\* a success response has just been processed, after the clock moved on
\* since the call began
C3_Witness ==
    \E t \in Tasks :
        /\ pc[t] = "refreshed" /\ now > call[t].now
        /\ accessToken = authRes[t].json.access_token
        /\ expirationTime = now + authRes[t].json.expires_in

\* C4: a refresh that gets a non-success status (400 or another) changes
\* none of refreshToken, accessToken, expirationTime, apiServer: no step of
\* the failing attempt, from sending the request to throwing, touches them.
C4_FailureKeepsSession ==
    [][\A t \in Tasks :
          (/\ pc'[t] # pc[t]
           /\ \/ pc'[t] \in {"awaitAuth", "authText"}
              \/ pc[t] \in {"awaitAuth", "authText"} /\ pc'[t] = "done")
          => UNCHANGED session]_vars

\* both failures have happened: a call ended on a 400 with the seed token
\* still held and no access token, and a call ended on another status
C4_Witness ==
    \E t, u \in Tasks :
        /\ pc[t] = "done" /\ RefreshFailed(t) /\ authRes[t].status = 400
        /\ pc[u] = "done" /\ RefreshFailed(u) /\ authRes[u].status # 400
        /\ refreshToken = SeedToken /\ accessToken = Undefined

\* C5: a data call whose refresh fails ends with that refresh's error, having
\* sent exactly one refresh request and no data request.
C5_FailedRefreshEndsCall ==
    \A t \in Tasks :
        RefreshFailed(t) =>
            /\ pc[t] \in {"authText", "done"}
            /\ call[t].stale
            /\ Len(authSent[t]) = 1
            /\ Len(dataSent[t]) = 0
            /\ dataRes[t] = None
            /\ pc[t] = "done" =>
                  /\ outcome[t].kind = "error"
                  /\ outcome[t].code = authRes[t].status
                  /\ outcome[t].message \in
                        {MSG_INVALID_REFRESH_TOKEN, MSG_FAILED_TO_REFRESH}

\* a call made alone ended on a failed refresh that was not a 400
C5_Witness ==
    \E t \in Tasks :
        /\ pc[t] = "done" /\ RefreshFailed(t) /\ call[t].alone
        /\ authRes[t].status # 400 /\ outcome[t].kind = "error"

\* C6: one 'refresh' event per refresh processed as a success and none for a
\* failure: the events emitted are the success replies delivered less those
\* whose body is still being parsed; each event is emitted with the new
\* fields in place, so its listener reads the rotated refresh token.
C6_EmitOncePerSuccess ==
    /\ Len(emitted) = okDelivered - Cardinality({t \in Tasks : pc[t] = "authJson"})
    /\ Len(emitted) > 0 =>
          /\ emitted[Len(emitted)].refreshToken = refreshToken
          /\ emitted[Len(emitted)].accessToken = accessToken
    /\ Len(emitted) = 0 => refreshToken = SeedToken /\ accessToken = Undefined
    /\ \A i \in 1..Len(emitted) :
          emitted[i].refreshToken # SeedToken /\ emitted[i].accessToken # Undefined

\* one refresh succeeded and one failed: a single event, whose listener
\* read the rotated token
C6_Witness ==
    /\ Len(emitted) = 1 /\ emitted[1].refreshToken = refreshToken /\ okDelivered = 1
    /\ \E t \in Tasks : pc[t] = "done" /\ RefreshFailed(t)

\* task t's call was made with no other call in flight and no call has been
\* started since
Undisturbed(t) == Called(t) /\ call[t].alone /\ call[t].seq = calls

\* C7: round trip. A call made with no other call in flight that finds the
\* token stale and gets the grant (A1, R1, S1, e) sends its data request to
\* S1 (trailing "/" dropped) followed by the endpoint, with A1 as the Bearer
\* token, and from the grant on getRefreshToken() returns R1.
C7_RoundTrip ==
    \A t \in Tasks :
        (Undisturbed(t) /\ RefreshGranted(t)
            /\ pc[t] \in {"refreshed", "awaitData", "dataText", "dataJson", "done"})
        => LET grant == authRes[t].json
           IN /\ refreshToken = grant.refresh_token
              /\ pc[t] # "refreshed" =>
                    /\ Len(dataSent[t]) = 1
                    /\ dataSent[t][1].bearer = grant.access_token
                    /\ dataSent[t][1].method = "GET"
                    /\ dataSent[t][1].url =
                          (IF grant.api_server[Len(grant.api_server)] = "/"
                             THEN SubSeq(grant.api_server, 1, Len(grant.api_server) - 1)
                             ELSE grant.api_server) \o call[t].endpoint
                    /\ (grant.api_server = <<"https://srv1", "/">>
                           /\ call[t].endpoint = AccountsEndpoint)
                        => dataSent[t][1].url = <<"https://srv1", "/v1/accounts">>

\* the scenario of the spec: the first call, getAccounts(), with seed R0 is
\* granted server https://srv1/ and has sent its data request
C7_Witness ==
    \E t \in Tasks :
        /\ Undisturbed(t) /\ RefreshGranted(t) /\ pc[t] = "done"
        /\ call[t].seq = 1 /\ call[t].endpoint = AccountsEndpoint
        /\ authSent[t][1].refresh_token = SeedToken
        /\ authRes[t].json.api_server = <<"https://srv1", "/">>
        /\ dataSent[t][1].url = <<"https://srv1", "/v1/accounts">>
        /\ refreshToken = <<"R", 1>>

\* C8 as stated: every error of a failed refresh carries the reply's status
\* code and the reply's raw body text.
C8_ErrorCarriesStatusAndBody ==
    \A t \in Tasks :
        (RefreshFailed(t) /\ pc[t] = "done") =>
            /\ outcome[t].code = authRes[t].status
            /\ outcome[t].body = authRes[t].text

\* C8 amended: every error of a failed refresh carries the reply's status
\* code; it carries the reply's raw body text when the status is not 400,
\* and an empty body when the status is 400.
C8_ErrorCarriesStatusBodyUnless400 ==
    \A t \in Tasks :
        (RefreshFailed(t) /\ pc[t] = "done") =>
            /\ outcome[t].kind = "error"
            /\ outcome[t].code = authRes[t].status
            /\ authRes[t].status # 400 => outcome[t].body = authRes[t].text
            /\ authRes[t].status = 400 => outcome[t].body = ""

\* a refresh failed with a status other than 400 and a body that is not
\* empty, and its error carries that body
C8_Witness ==
    \E t \in Tasks :
        /\ RefreshFailed(t) /\ pc[t] = "done" /\ authRes[t].status # 400
        /\ authRes[t].text # "" /\ outcome[t].body = authRes[t].text

\* C9: the error of a failed refresh says "invalid refresh token" iff the
\* status is exactly 400; any other non-success status gives the generic
\* refresh-failure message.
C9_MessageByStatus ==
    \A t \in Tasks :
        (RefreshFailed(t) /\ pc[t] = "done") =>
            /\ outcome[t].kind = "error"
            /\ outcome[t].message = MSG_INVALID_REFRESH_TOKEN
                  <=> authRes[t].status = 400
            /\ authRes[t].status # 400 => outcome[t].message = MSG_FAILED_TO_REFRESH

\* both kinds of failure have ended a call
C9_Witness ==
    \E t, u \in Tasks :
        /\ RefreshFailed(t) /\ pc[t] = "done" /\ authRes[t].status = 400
        /\ outcome[t].message = MSG_INVALID_REFRESH_TOKEN
        /\ RefreshFailed(u) /\ pc[u] = "done" /\ authRes[u].status # 400
        /\ outcome[u].message = MSG_FAILED_TO_REFRESH

\* task t's data request was answered with a status that is not ok
DataFailed(t) == dataRes[t].kind = "reply" /\ ~ResOk(dataRes[t].status)

\* C10: a data request answered with a non-success status makes the call fail
\* with an error carrying that status and the reply's raw body text, after
\* exactly one data request and with no refresh sent because of the failure.
C10_DataFailureEndsCall ==
    \A t \in Tasks :
        DataFailed(t) =>
            /\ pc[t] \in {"dataText", "done"}
            /\ Len(dataSent[t]) = 1
            /\ Len(authSent[t]) = (IF call[t].stale THEN 1 ELSE 0)
            /\ net[t] = None
            /\ pc[t] = "done" =>
                  /\ outcome[t].kind = "error"
                  /\ outcome[t].code = dataRes[t].status
                  /\ outcome[t].body = dataRes[t].text
                  /\ outcome[t].message =
                        <<"Failed to ", "GET", " ">> \o dataSent[t][1].url
                  /\ dataRes[t].status = 500 => outcome[t].body = "server error"

\* a call that found the token fresh ended on a 500 with body "server error"
C10_Witness ==
    \E t \in Tasks :
        /\ DataFailed(t) /\ pc[t] = "done" /\ ~call[t].stale
        /\ outcome[t].code = 500 /\ outcome[t].body = "server error"
        /\ Len(authSent[t]) = 0

\* C11: the session fields are changed only by the processing of a successful
\* refresh. Sending a data request and processing its reply (success or
\* failure), the staleness check of a call, and the three accessors leave
\* refreshToken, accessToken, expirationTime and apiServer unchanged and send
\* no refresh request; the accessors return the fields as they are.
C11_OnlyRefreshMutates ==
    [][/\ session' # session =>
              \E t \in Tasks : pc[t] = "authJson" /\ pc'[t] = "refreshed"
       /\ \A t \in Tasks :
            (pc'[t] # pc[t]
               /\ pc[t] \in {"refreshed", "awaitData", "dataText", "dataJson"})
            => UNCHANGED <<session, authSent, net>>
       /\ \A t \in Tasks :
            call'[t] # call[t] =>
                /\ UNCHANGED session
                /\ ~call'[t].stale =>
                      /\ authSent'[t] = <<>> /\ net' = net
                      /\ Len(dataSent'[t]) = 1
       /\ read' # None =>
            /\ UNCHANGED <<session, authSent, dataSent, net>>
            /\ read'.refreshToken = refreshToken
            /\ read'.accessToken = accessToken
            /\ read'.expirationTime = expirationTime]_vars

\* the accessors have just been read after a data request failed: the
\* session still holds the access token that request carried
C11_Witness ==
    /\ read # None /\ read.accessToken # Undefined
    /\ \E t \in Tasks :
          /\ pc[t] = "done" /\ DataFailed(t)
          /\ read.accessToken = dataSent[t][1].bearer
          /\ accessToken = dataSent[t][1].bearer

\* the refresh token the authorization endpoint issued last, or the
\* constructor's token when it has issued none
LastIssuedToken == IF issued = 0 THEN SeedToken ELSE <<"R", issued>>

\* a successful refresh reply has been produced for task t and the client has
\* not yet finished processing it
GrantUnprocessed(t) ==
    \/ pc[t] = "awaitAuth" /\ net[t].kind = "reply" /\ ResOk(net[t].status)
    \/ pc[t] = "authJson"

\* C12: against an authorization endpoint that issues a new refresh token on
\* every successful exchange, in every reachable state in which no successful
\* refresh reply is waiting to be processed (in particular in every state with
\* no refresh in progress) the refreshToken field equals the refresh token
\* the endpoint issued last, or the constructor's token if it issued none.
C12_HoldsLastIssued ==
    (\A t \in Tasks : ~GrantUnprocessed(t)) => refreshToken = LastIssuedToken

\* two successive refreshes have been granted and processed
C12_Witness ==
    /\ issued = 2
    /\ \A t \in Tasks : pc[t] \notin {"awaitAuth", "authText", "authJson"}
    /\ refreshToken = <<"R", 2>>

\* tok is a refresh token that a successful refresh has already exchanged:
\* the endpoint has issued a replacement for it
Consumed(tok) == issued >= 1 /\ tok[1] = "R" /\ tok[2] < issued

\* C13: the refresh token is single-use and rotating: in every interleaving,
\* whenever the authorization endpoint receives (and answers) a refresh
\* request, the token it carries has not been consumed by an earlier
\* successful refresh.
C13_NeverPresentsConsumedToken ==
    [][\A t \in Tasks :
          (net[t].kind = "request" /\ net'[t].kind = "reply")
          => ~Consumed(net[t].refresh_token)]_vars

\* two overlapping calls have each sent the constructor's token; one exchange
\* was granted and the other request carried the token that grant consumed
C13_ReuseHappens ==
    \E t, u \in Tasks :
        /\ t # u
        /\ Len(authSent[t]) = 1 /\ Len(authSent[u]) = 1
        /\ authSent[t][1].refresh_token = authSent[u][1].refresh_token
        /\ RefreshGranted(t)
        /\ authRes[u].kind = "reply" /\ authRes[u].status = CODE_BAD_REQUEST

\* task u started a data-fetching call while task t's call was in progress,
\* and both calls found the token stale
ConcurrentStale(t, u) ==
    /\ t # u /\ Called(t) /\ Called(u)
    /\ ~call[u].alone /\ call[u].seq = call[t].seq + 1
    /\ call[t].stale /\ call[u].stale

\* C14: when two tasks concurrently call a data-fetching operation while the
\* token is stale, both observe "needs refresh", both send their own refresh
\* request, and both go on to send their data request: apart from a failure
\* of the authorization service itself (a status other than 400, or a seed
\* token that was never valid), neither call ends without having fetched.
C14_BothStaleCallersFetch ==
    \A t, u \in Tasks :
        ConcurrentStale(t, u) =>
            /\ Len(authSent[t]) = 1 /\ Len(authSent[u]) = 1
            /\ \A v \in {t, u} :
                  (/\ issued >= 1
                   /\ pc[v] = "done"
                   /\ authRes[v].kind = "reply"
                   /\ authRes[v].status \notin AuthFailStatuses)
                  => Len(dataSent[v]) = 1

\* task t's latest refresh attempt was answered with status 400
RefreshRejected(t) ==
    authRes[t].kind = "reply" /\ authRes[t].status = CODE_BAD_REQUEST

\* C15: there is no recovery from an invalid refresh token: once a refresh
\* attempt on the client has failed with status 400, no data-fetching call
\* on it completes successfully afterwards.
C15_NoSuccessAfterRejection ==
    [][\A t \in Tasks :
          (pc[t] # "done" /\ pc'[t] = "done" /\ outcome'[t].kind = "ok")
          => \A u \in Tasks : ~(pc[u] = "done" /\ RefreshRejected(u))]_vars

\* the session as the constructor leaves it
ConstructionSession ==
    /\ accessToken = Undefined /\ refreshToken = SeedToken
    /\ apiServer = DEFAULT_API_SERVER /\ expirationTime = -1

\* the session consists of the n-th reply of the authorization endpoint:
\* its two tokens, and its server with the expiry computed from its lifetime
SessionOfReply(n) ==
    /\ accessToken = <<"A", n>> /\ refreshToken = <<"R", n>>
    /\ \E g \in Grants, time \in 0..MaxTime :
          apiServer = g.api_server /\ expirationTime = time + g.expires_in

\* C16: the four session fields are updated only together. In every state
\* (each is a suspension point: any task, accessor or listener may observe
\* it) the session is the construction tuple or consists of one refresh
\* reply; accessToken is defined exactly when expirationTime is not -1; a
\* step that changes any field sets all four from the one reply being
\* processed; and a data request carries the access token and the server of
\* the session held when it is sent, hence of one reply.
C16_SessionIsOneUnit ==
    /\ [](/\ ConstructionSession \/ \E n \in 1..issued : SessionOfReply(n)
          /\ (accessToken # Undefined) <=> (expirationTime # -1)
          /\ \A r \in {read} : r # None =>
                (r.accessToken # Undefined) <=> (r.expirationTime # -1))
    /\ [][/\ session' # session =>
               \E t \in Tasks :
                  /\ pc[t] = "authJson"
                  /\ accessToken' = authRes[t].json.access_token
                  /\ refreshToken' = authRes[t].json.refresh_token
                  /\ apiServer' = authRes[t].json.api_server
                  /\ expirationTime' = now + authRes[t].json.expires_in
          /\ \A t \in Tasks :
               (pc[t] # "awaitData" /\ pc'[t] = "awaitData") =>
                  LET req == dataSent'[t][Len(dataSent'[t])]
                  IN /\ req.bearer = accessToken /\ req.bearer # Undefined
                     /\ req.url = ApiUrl(apiServer, call'[t].endpoint)
                     /\ \E n \in 1..issued : SessionOfReply(n)]_vars

\* two refreshes of overlapping calls have both been processed, and the call
\* that was granted the first reply has sent its data request with the token
\* and the server of the second
C16_Witness ==
    /\ Len(emitted) = 2
    /\ \E n \in 1..issued : SessionOfReply(n)
    /\ \E t \in Tasks :
          /\ RefreshGranted(t) /\ authRes[t].json.access_token = <<"A", 1>>
          /\ Len(dataSent[t]) = 1
          /\ dataSent[t][1].bearer = <<"A", 2>>
          /\ dataSent[t][1].url[1] # authRes[t].json.api_server[1]

\* C17: no data request is sent before some refresh on the client has
\* completed successfully; every data request carries a defined access
\* token and is addressed to a server that a refresh reply returned (so to
\* the built-in default server only if a reply returned it).
C17_DataRequestAfterRefresh ==
    \A t \in Tasks :
        \A i \in 1..Len(dataSent[t]) :
            /\ Len(emitted) >= 1
            /\ dataSent[t][i].bearer # Undefined
            /\ \E n \in 1..issued : dataSent[t][i].bearer = <<"A", n>>
            /\ \E g \in Grants :
                  dataSent[t][i].url = ApiUrl(g.api_server, call[t].endpoint)

\* a call that found the token fresh has sent its data request without a
\* refresh of its own, after an earlier call's refresh
C17_Witness ==
    \E t \in Tasks :
        /\ Called(t) /\ ~call[t].stale
        /\ Len(authSent[t]) = 0 /\ Len(dataSent[t]) = 1
        /\ Len(emitted) = 1

\* C18: when every refresh reply has a lifetime above the safety margin and
\* the clock does not advance between the processing of a refresh reply and
\* the continuation of the call that awaited it, every data request is sent
\* at a moment with now < expirationTime - 20, whatever the interleaving;
\* and a call that finds the token fresh sends its data request in the same
\* step as the check, at the time of the check.
C18_DataRequestInsideMargin ==
    [][\A t \in Tasks :
          /\ (pc[t] # "awaitData" /\ pc'[t] = "awaitData")
             => now < expirationTime - SAFETY_MARGIN
          /\ (call'[t] # call[t] /\ ~call'[t].stale)
             => /\ pc'[t] = "awaitData"
                /\ call'[t].now = now /\ now' = now]_vars

\* the last second inside the margin: a token granted at second 1 for 21
\* seconds, and a later call that finds it fresh sends its data request in
\* that same second
C18_Witness ==
    \E t \in Tasks :
        /\ pc[t] = "awaitData" /\ Called(t) /\ ~call[t].stale
        /\ call[t].now = 1 /\ now = 1
        /\ expirationTime = 1 + 21

\* task t has a data-fetching call in progress
InProgress(t) == pc[t] \notin {"idle", "done"}

\* C19: provided every request sent is answered, every data-fetching call
\* completes (it returns data or fails with an error), having sent at most
\* one refresh request and at most one data request; a call in progress can
\* always take its next step, whatever the other task is doing.
C19_EveryCallCompletes ==
    /\ \A t \in Tasks : InProgress(t) ~> (pc[t] = "done" /\ outcome[t] # None)
    /\ [](\A t \in Tasks :
            /\ Len(authSent[t]) <= 1 /\ Len(dataSent[t]) <= 1
            /\ InProgress(t) => ENABLED CallStep(t))

\* both tasks have completed overlapping calls, one with data after one
\* refresh request and one data request, the other with an error
C19_Witness ==
    \E t, u \in Tasks :
        /\ ConcurrentStale(t, u)
        /\ pc[t] = "done" /\ pc[u] = "done"
        /\ outcome[t].kind = "ok" /\ outcome[u].kind = "error"
        /\ Len(authSent[t]) = 1 /\ Len(dataSent[t]) = 1

====
